---------------------------- MODULE Spec2Model ----------------------------
(***************************************************************************)
(* RestaurantsService (src/src/restaurants/restaurants.service.ts): the    *)
(* catalog mutation workflows, the keyword index they maintain and the     *)
(* browse query, over a store of Restaurant and Dish rows.                 *)
(*                                                                         *)
(* Every handler is an async function: it runs without interruption up to  *)
(* its next `await` of a storage call, so one action of the model is "the  *)
(* pending storage call executes and the handler runs on to its next       *)
(* storage call or to its return".  A request's arrival and its first      *)
(* storage call are one step: nothing a handler does before its first      *)
(* await reads shared state.                                               *)
(*                                                                         *)
(* A string is a sequence of one-character strings; the empty sequence     *)
(* stands for every falsy text (undefined, null, ''), which the code tells *)
(* apart nowhere.  A keyword map is a function from tokens to counts whose *)
(* DOMAIN is the set of keys the JSON object holds.                        *)
(***************************************************************************)
EXTENDS Integers, Sequences, FiniteSets, TLC

\* ------------------------------------------------------------- bounds
MaxCalls == 2
MaxRestaurants == 2
MaxDishes == 2

\* ------------------------------------------------------------- inputs
Missing == <<>>

\* The callers, and those of them who create restaurants.
Users == {1, 2}
Owners == {1}
TextA == <<"a">>
TextAb == <<"A", " ", "b">>
TextBb == <<"b", " ", "b">>
Blank == <<" ">>
RestaurantIds == 0..MaxRestaurants
DishIds == 1..MaxDishes
Slots == 1..MaxCalls

\* ------------------------------------------------- Keyword Extractor
IsWordChar(c) == c \in {"a", "b", "A", "B", "p"}

toLowerCase(c) == CASE c = "A" -> "a" [] c = "B" -> "b" [] OTHER -> c

Flush(cur) == IF cur = <<>> THEN <<>> ELSE <<cur>>

RECURSIVE SplitWords(_, _, _)
SplitWords(text, i, cur) ==
  IF i > Len(text) THEN Flush(cur)
  ELSE IF IsWordChar(text[i])
       THEN SplitWords(text, i + 1, Append(cur, toLowerCase(text[i])))
       ELSE Flush(cur) \o SplitWords(text, i + 1, <<>>)

Tokenize(text) == SplitWords(text, 1, <<>>)

Without(m, k) == [x \in (DOMAIN m) \ {k} |-> m[x]]

IncrementToken(m, k) ==
  IF k \in DOMAIN m THEN [m EXCEPT ![k] = @ + 1] ELSE (k :> 1) @@ m

\* A decrement that stores the count it reaches, zero included.
DecrementTokenToZero(m, k) ==
  IF k \notin DOMAIN m THEN m ELSE [m EXCEPT ![k] = @ - 1]

DecrementToken(m, k) ==
  IF k \notin DOMAIN m THEN m
  ELSE IF m[k] - 1 <= 0 THEN Without(m, k)
       ELSE [m EXCEPT ![k] = @ - 1]

RECURSIVE CountTokens(_, _, _)
CountTokens(m, tokens, subtract) ==
  IF tokens = <<>> THEN m
  ELSE CountTokens(IF subtract THEN DecrementToken(m, Head(tokens))
                               ELSE IncrementToken(m, Head(tokens)),
                   Tail(tokens), subtract)

extractAndCountKeywords(existing, text, subtract) ==
  IF text = Missing THEN existing
  ELSE CountTokens(existing, Tokenize(text), subtract)

EmptyKeywords == <<>>

\* ------------------------------------------------------ result values
\* A result carries, next to what the operation returns, the request it
\* answers where a caller's input decides what the result lists.
Failure(op, code, message) ==
  [op |-> op, kind |-> "result", ok |-> FALSE, code |-> code, message |-> message,
   restaurants |-> <<>>, request |-> <<>>]

Found(op, ids) ==
  [op |-> op, kind |-> "result", ok |-> TRUE, code |-> "", message |-> "",
   restaurants |-> ids, request |-> <<>>]

Answer(request, result) == [result EXCEPT !.request = request]

Success(op) == Found(op, <<>>)

Raised(op) ==
  [op |-> op, kind |-> "raised", ok |-> FALSE, code |-> "", message |-> "",
   restaurants |-> <<>>, request |-> <<>>]

badRequestError(op) == Failure(op, "ValidationError", "")
notFoundError(op, message) == Failure(op, "NotFoundError", message)
unauthorizedError(op, message) == Failure(op, "AuthorizationError", message)
internalServerError(op) == Failure(op, "InternalError", "")

\* -------------------------------------------------------------- state
VARIABLES
  restaurants,   \* the Restaurant table: row i is the restaurant of id i
  dishes,        \* the Dish table: a function from the ids of the rows it holds
  lastDishId,    \* the Dish table's id sequence
  calls,         \* per slot, the multi-step request in flight and its locals
  response       \* what the request that completed last gave its caller

vars == <<restaurants, dishes, lastDishId, calls, response>>
store == <<restaurants, dishes, lastDishId>>

Idle == [pc |-> "idle"]

Init ==
  /\ restaurants = <<>>
  /\ dishes = <<>>
  /\ lastDishId = 0
  /\ calls = [p \in Slots |-> Idle]
  /\ response = [op |-> "none", kind |-> "none", ok |-> FALSE, code |-> "",
                 message |-> "", restaurants |-> <<>>, request |-> <<>>]

\* ----------------------------------------------------- Catalog Store
findRestaurant(id) == IF id \in DOMAIN restaurants THEN <<restaurants[id]>> ELSE <<>>
findDish(id) == IF id \in DOMAIN dishes THEN <<dishes[id]>> ELSE <<>>

Return(p, r) ==
  /\ calls' = [calls EXCEPT ![p] = Idle]
  /\ response' = r

\* A storage call either executes or rejects (a storage-layer fault).
StorageOutcomes == {"done", "fault"}

\* JavaScript truthiness of a text ('' and undefined are falsy) and of a number
\* (0 and undefined are falsy).
truthyText(v) == v # Missing
truthyNumber(v) == v # <<>> /\ v # <<0>>

\* No ownership test.
isAnyone(owner, restaurant) == TRUE

\* The ownership test of lines 156, 207, 238 and 259.
isOwner(owner, restaurant) == owner = restaurant.ownerId

\* A return that follows no write of the request's own.
reply(p, r) ==
  /\ Return(p, r)
  /\ UNCHANGED store

\* A catch block that undoes the dish an addDish has inserted.
catchAndUndo(p, op) ==
  /\ Return(p, internalServerError(op))
  /\ dishes' = IF calls[p].pc = "addDish:restaurants.save"
               THEN Without(dishes, lastDishId) ELSE dishes
  /\ UNCHANGED <<restaurants, lastDishId>>

\* A handler's catch block (lines 182-191, 224-226, 245-247, 293-295): the
\* request ends with an internal error; nothing is written or undone.
catch(p, op) ==
  /\ Return(p, internalServerError(op))
  /\ UNCHANGED store

\* --------------------------------------------------- createRestaurant
\* Keywords seeded from the name alone.
createRestaurantKeywordsOfName(input) ==
  extractAndCountKeywords(EmptyKeywords, input.name, FALSE)

\* The keywords a new restaurant is seeded with (lines 50-54).
createRestaurantKeywords(input) ==
  extractAndCountKeywords(
    extractAndCountKeywords(EmptyKeywords, input.name, FALSE),
    input.description, FALSE)

createRestaurant(owner, input, outcome) ==
  /\ Len(restaurants) < MaxRestaurants
  /\ LET restaurant == [id |-> Len(restaurants) + 1, ownerId |-> owner,
                        name |-> input.name, description |-> input.description,
                        keywords |-> createRestaurantKeywords(input)]
     IN IF outcome = "fault"
        THEN /\ response' = internalServerError("createRestaurant")
             /\ UNCHANGED restaurants
        ELSE /\ restaurants' = Append(restaurants, restaurant)
             /\ response' = Success("createRestaurant")
  /\ UNCHANGED <<dishes, lastDishId, calls>>

\* ------------------------------------------------------------ addDish
AddingDish(p) == calls[p].pc = "addDish:dishes.save"

\* A validation that leaves the price out.
addDishIdOrNameMissing(input) ==
  input.restaurantId = 0 \/ ~truthyText(input.name)

\* The validation of line 152.
addDishInputMissing(input) ==
  input.restaurantId = 0 \/ ~truthyText(input.name) \/ ~truthyNumber(input.price)

\* Keywords that take in the name of the dish alone.
addDishKeywordsOfName(keywords, dish) ==
  extractAndCountKeywords(keywords, dish.name, FALSE)

\* The keywords of the in-memory restaurant after lines 167-174.
addDishKeywords(keywords, dish) ==
  extractAndCountKeywords(
    extractAndCountKeywords(keywords, dish.name, FALSE),
    dish.description, FALSE)

\* Validation, restaurants.findOne, the owner check and the keyword update
\* (lines 152-174), up to the await of dishes.save.
addDish(p, owner, input, outcome) ==
  /\ calls[p] = Idle
  /\ IF addDishInputMissing(input)
     THEN reply(p, badRequestError("addDish"))
     ELSE IF outcome = "fault"
     THEN catch(p, "addDish")
     ELSE IF findRestaurant(input.restaurantId) = <<>>
     THEN reply(p, notFoundError("addDish", "Restaurant not found!"))
     ELSE LET restaurant == findRestaurant(input.restaurantId)[1]
              dish == [name |-> input.name, description |-> input.description,
                       photo |-> input.photo, price |-> input.price,
                       restaurantId |-> input.restaurantId]
          IN IF ~isOwner(owner, restaurant)
             THEN reply(p, unauthorizedError("addDish", ""))
             ELSE /\ lastDishId + Cardinality({q \in Slots : AddingDish(q)})
                       < MaxDishes
                  /\ calls' = [calls EXCEPT ![p] =
                       [pc |-> "addDish:dishes.save", dish |-> dish,
                        restaurant |-> [restaurant EXCEPT !.keywords =
                           addDishKeywords(restaurant.keywords, dish)]]]
                  /\ UNCHANGED <<store, response>>

\* await this.dishes.save(dish) (line 175): the row is inserted under a new id.
addDishSaveDish(p, outcome) ==
  /\ calls[p].pc = "addDish:dishes.save"
  /\ IF outcome = "fault"
     THEN catch(p, "addDish")
     ELSE /\ lastDishId' = lastDishId + 1
          /\ dishes' = (lastDishId' :> calls[p].dish) @@ dishes
          /\ calls' = [calls EXCEPT ![p].pc = "addDish:restaurants.save"]
          /\ UNCHANGED <<restaurants, response>>

\* A save that leaves the keywords column as it is stored.
saveRestaurantButKeywords(entity) ==
  [restaurants EXCEPT ![entity.id] =
     [entity EXCEPT !.keywords = restaurants[entity.id].keywords]]

\* restaurants.save(entity): the row of the entity's id takes the entity's columns.
saveRestaurant(entity) == [restaurants EXCEPT ![entity.id] = entity]

\* await this.restaurants.save(restaurant) (line 176) and the return.
addDishSaveRestaurant(p, outcome) ==
  /\ calls[p].pc = "addDish:restaurants.save"
  /\ IF outcome = "fault"
     THEN catch(p, "addDish")
     ELSE /\ restaurants' = saveRestaurant(calls[p].restaurant)
          /\ Return(p, Success("addDish"))
          /\ UNCHANGED <<dishes, lastDishId>>

\* --------------------------------------------------------- deleteDish
\* dishes.findOne({ id }) (lines 199-205), up to the await of restaurants.findOne.
deleteDish(p, owner, id, outcome) ==
  /\ calls[p] = Idle
  /\ IF outcome = "fault"
     THEN catch(p, "deleteDish")
     ELSE IF findDish(id) = <<>>
     THEN reply(p, notFoundError("deleteDish", "Dish not found!"))
     ELSE /\ calls' = [calls EXCEPT ![p] =
               [pc |-> "deleteDish:restaurants.findOne", owner |-> owner,
                id |-> id, dish |-> findDish(id)[1]]]
          /\ UNCHANGED <<store, response>>

\* The subtraction of the dish's name alone.
deleteDishKeywordsOfName(keywords, dish) ==
  extractAndCountKeywords(keywords, dish.name, TRUE)

\* The keywords of the in-memory restaurant after lines 208-217.
deleteDishKeywords(keywords, dish) ==
  extractAndCountKeywords(
    extractAndCountKeywords(keywords, dish.name, TRUE),
    dish.description, TRUE)

\* restaurants.findOne, the owner check and the keyword subtraction
\* (lines 206-217), up to the await of restaurants.save.
deleteDishFindRestaurant(p, outcome) ==
  /\ calls[p].pc = "deleteDish:restaurants.findOne"
  /\ LET dish == calls[p].dish
         restaurant == findRestaurant(dish.restaurantId)[1]
     IN IF outcome = "fault"
        THEN catch(p, "deleteDish")
        ELSE IF ~isOwner(calls[p].owner, restaurant)
        THEN reply(p, unauthorizedError("deleteDish", ""))
        ELSE /\ calls' = [calls EXCEPT ![p] =
                  [pc |-> "deleteDish:restaurants.save", id |-> calls[p].id,
                   dish |-> dish,
                   restaurant |-> [restaurant EXCEPT !.keywords =
                      deleteDishKeywords(restaurant.keywords, dish)]]]
             /\ UNCHANGED <<store, response>>

\* The step without its save.
deleteDishForgetRestaurant(p, outcome) ==
  /\ calls[p].pc = "deleteDish:restaurants.save"
  /\ IF outcome = "fault"
     THEN catch(p, "deleteDish")
     ELSE /\ calls' = [calls EXCEPT ![p].pc = "deleteDish:dishes.delete"]
          /\ UNCHANGED <<store, response>>

\* await this.restaurants.save(restaurant) (line 218).
deleteDishSaveRestaurant(p, outcome) ==
  /\ calls[p].pc = "deleteDish:restaurants.save"
  /\ IF outcome = "fault"
     THEN catch(p, "deleteDish")
     ELSE /\ restaurants' = saveRestaurant(calls[p].restaurant)
          /\ calls' = [calls EXCEPT ![p].pc = "deleteDish:dishes.delete"]
          /\ UNCHANGED <<dishes, lastDishId, response>>

\* await this.dishes.delete({ id }) (line 219) and the return.
deleteDishDelete(p, outcome) ==
  /\ calls[p].pc = "deleteDish:dishes.delete"
  /\ IF outcome = "fault"
     THEN catch(p, "deleteDish")
     ELSE /\ dishes' = Without(dishes, calls[p].id)
          /\ Return(p, Success("deleteDish"))
          /\ UNCHANGED <<restaurants, lastDishId>>

\* --------------------------------------------------------- updateDish
\* dishes.findOne(id) (lines 255-256), up to the await of restaurants.findOne.
updateDish(p, owner, input, outcome) ==
  /\ calls[p] = Idle
  /\ IF outcome = "fault"
     THEN catch(p, "updateDish")
     ELSE IF findDish(input.id) = <<>>
     THEN reply(p, notFoundError("updateDish", "Dish not found!"))
     ELSE /\ calls' = [calls EXCEPT ![p] =
               [pc |-> "updateDish:restaurants.findOne", owner |-> owner,
                input |-> input, dish |-> findDish(input.id)[1]]]
          /\ UNCHANGED <<store, response>>

\* The keywords of the in-memory restaurant after lines 260-285.
updatedKeywords(keywords, dish, input) ==
  LET afterName ==
        IF truthyText(input.name)
        THEN extractAndCountKeywords(
               extractAndCountKeywords(keywords, dish.name, TRUE),
               input.name, FALSE)
        ELSE keywords
  IN IF truthyText(input.description)
     THEN extractAndCountKeywords(
            IF truthyText(dish.description)
            THEN extractAndCountKeywords(afterName, dish.description, TRUE)
            ELSE afterName,
            input.description, FALSE)
     ELSE afterName

\* An update that takes a price only if it is truthy, so never a price of 0.
updatedDishTruthyPrice(dish, input) ==
  [dish EXCEPT
     !.name = IF truthyText(input.name) THEN input.name ELSE @,
     !.description = IF truthyText(input.description) THEN input.description ELSE @,
     !.price = IF truthyNumber(input.price) THEN input.price ELSE @,
     !.photo = IF truthyText(input.photo) THEN input.photo ELSE @]

\* The in-memory dish after lines 260-287.
updatedDish(dish, input) ==
  [dish EXCEPT
     !.name = IF truthyText(input.name) THEN input.name ELSE @,
     !.description = IF truthyText(input.description) THEN input.description ELSE @,
     !.price = IF Len(input.price) = 1 THEN input.price ELSE @,
     !.photo = IF truthyText(input.photo) THEN input.photo ELSE @]

\* restaurants.findOne, the owner check and the in-memory updates
\* (lines 258-287), up to the await of dishes.save.
updateDishFindRestaurant(p, outcome) ==
  /\ calls[p].pc = "updateDish:restaurants.findOne"
  /\ LET dish == calls[p].dish
         input == calls[p].input
         restaurant == findRestaurant(dish.restaurantId)[1]
     IN IF outcome = "fault"
        THEN catch(p, "updateDish")
        ELSE IF ~isOwner(calls[p].owner, restaurant)
        THEN reply(p, unauthorizedError("updateDish", ""))
        ELSE /\ calls' = [calls EXCEPT ![p] =
                  [pc |-> "updateDish:dishes.save", input |-> input,
                   dish |-> updatedDish(dish, input),
                   restaurant |-> [restaurant EXCEPT !.keywords =
                      updatedKeywords(restaurant.keywords, dish, input)]]]
             /\ UNCHANGED <<store, response>>

\* await this.dishes.save(dish) (line 288) and the return.  save writes the
\* entity under its id, inserting the row when the table no longer holds it.
\* The in-memory restaurant is dropped: the handler saves the dish alone.
updateDishSaveDish(p, outcome) ==
  /\ calls[p].pc = "updateDish:dishes.save"
  /\ IF outcome = "fault"
     THEN catch(p, "updateDish")
     ELSE /\ dishes' = (calls[p].input.id :> calls[p].dish) @@ dishes
          /\ Return(p, Success("updateDish"))
          /\ UNCHANGED <<restaurants, lastDishId>>

\* -------------------------------------------------------- getDishById
\* dishes.findOne(id) (lines 234-235), up to the await of restaurants.findOne.
getDishById(p, owner, id, outcome) ==
  /\ calls[p] = Idle
  /\ IF outcome = "fault"
     THEN catch(p, "getDishById")
     ELSE IF findDish(id) = <<>>
     THEN reply(p, notFoundError("getDishById", "Dish not found"))
     ELSE /\ calls' = [calls EXCEPT ![p] =
               [pc |-> "getDishById:restaurants.findOne", owner |-> owner,
                dish |-> findDish(id)[1]]]
          /\ UNCHANGED <<store, response>>

\* restaurants.findOne and the owner check (lines 237-244).
getDishByIdFindRestaurant(p, outcome) ==
  /\ calls[p].pc = "getDishById:restaurants.findOne"
  /\ LET restaurant == findRestaurant(calls[p].dish.restaurantId)[1]
     IN IF outcome = "fault"
        THEN catch(p, "getDishById")
        ELSE IF ~isOwner(calls[p].owner, restaurant)
        THEN reply(p, unauthorizedError("getDishById", "You can see this."))
        ELSE reply(p, Success("getDishById"))

\* ------------------------------------------------------ myRestaurants
RECURSIVE SelectIds(_, _, _)
\* The ids i..n that are among the matching ones, in id order.
SelectIds(matching, i, n) ==
  IF i > n THEN <<>>
  ELSE (IF i \in matching THEN <<i>> ELSE <<>>) \o SelectIds(matching, i + 1, n)

myRestaurants(owner, outcome) ==
  /\ LET Mine == {i \in 1..Len(restaurants) : restaurants[i].ownerId = owner}
     IN response' = IF outcome = "fault"
                    THEN internalServerError("myRestaurants")
                    ELSE Found("myRestaurants",
                               SelectIds(Mine, 1, Len(restaurants)))
  /\ UNCHANGED <<store, calls>>

\* ------------------------------------------------------- myRestaurant
myRestaurantNotFound ==
  "Restaurant not found or you don't have permission to view it."

\* The result for a restaurant that does not exist (lines 109-117).
myRestaurantAbsent ==
  Failure("myRestaurant", "NotFoundError", myRestaurantNotFound)

\* A result that tells the caller the restaurant is someone else's.
myRestaurantForbidden ==
  Failure("myRestaurant", "AuthorizationError", myRestaurantNotFound)

\* The result for a restaurant of another owner (lines 118-126).
myRestaurantNotOwned ==
  Failure("myRestaurant", "NotFoundError", myRestaurantNotFound)

myRestaurant(owner, id, outcome) ==
  /\ response' =
       IF id = 0
       THEN Failure("myRestaurant", "ValidationError", "ID not provided")
       ELSE IF outcome = "fault"
       THEN internalServerError("myRestaurant")
       ELSE Answer([owner |-> owner, id |-> id],
                   IF findRestaurant(id) = <<>>
                   THEN myRestaurantAbsent
                   ELSE IF findRestaurant(id)[1].ownerId # owner
                   THEN myRestaurantNotOwned
                   ELSE Found("myRestaurant", <<id>>))
  /\ UNCHANGED <<store, calls>>

\* -------------------------------------------------- browseRestaurants
RECURSIVE LowerCase(_)
LowerCase(text) ==
  IF text = <<>> THEN <<>>
  ELSE <<toLowerCase(Head(text))>> \o LowerCase(Tail(text))

DefaultLimit == 10
DefaultOffset == 0

\* A parameter's value: the one supplied, else its default (lines 299-301).
OrDefault(given, default) == IF given = <<>> THEN default ELSE given[1]

\* browseWhere (lines 305-319): the tokens whose existence predicates are
\* OR-ed; no token is no filter.
browseWhere(query) ==
  LET queryWords == extractAndCountKeywords(EmptyKeywords, query, FALSE)
  IN IF truthyText(query) /\ DOMAIN queryWords # {} THEN DOMAIN queryWords ELSE {}

\* A row passes only if it has every token of the filter as a key.
matchesEveryWhere(where, restaurant) ==
  \A w \in where : w \in DOMAIN restaurant.keywords

\* A row passes only if a token of the filter is a key of it, so that no row
\* passes an empty filter.
matchesSomeWhere(where, restaurant) ==
  \E w \in where : w \in DOMAIN restaurant.keywords

\* where: [...browseWhere()] (line 322): the existence predicates of lines
\* 310-312 OR-ed; an empty list is no filter.
matchesWhere(where, restaurant) ==
  where = {} \/ \E w \in where : w \in DOMAIN restaurant.keywords

\* skip: offset >= 0 ? offset * limit : 0 (line 324) without the factor.
browseSkipOffset(offset, limit) == IF offset >= 0 THEN offset ELSE 0

\* skip: offset >= 0 ? offset * limit : 0 (line 324).
browseSkip(offset, limit) == IF offset >= 0 THEN offset * limit ELSE 0

\* restaurants.find({ where, skip, take }) (lines 321-326) in id order.
findPage(where, skip, take) ==
  LET Matches == {i \in 1..Len(restaurants) : matchesWhere(where, restaurants[i])}
      matched == SelectIds(Matches, 1, Len(restaurants))
  IN SubSeq(matched, skip + 1,
            IF skip + take < Len(matched) THEN skip + take ELSE Len(matched))

\* What browseRestaurants hands to its caller (lines 298-332).
browseRestaurantsResult(input, outcome) ==
  LET limit == OrDefault(input.limit, DefaultLimit)
      offset == OrDefault(input.offset, DefaultOffset)
      query == LowerCase(input.query)
      skip == browseSkip(offset, limit)
  IN IF outcome = "fault"
     THEN Raised("browseRestaurants")
     ELSE Answer(input,
                 Found("browseRestaurants",
                       findPage(browseWhere(query), skip, limit)))

\* A search that counts a hit on every restaurant it lists, under the key
\* "p" of the restaurant's keywords.
browseRestaurantsCountingHits(input, outcome) ==
  /\ response' = browseRestaurantsResult(input, outcome)
  /\ restaurants' =
       [i \in 1..Len(restaurants) |->
          IF \E k \in 1..Len(response'.restaurants) : response'.restaurants[k] = i
          THEN [restaurants[i] EXCEPT
                  !.keywords = IncrementToken(@, <<"p">>)]
          ELSE restaurants[i]]
  /\ UNCHANGED <<dishes, lastDishId, calls>>

browseRestaurants(input, outcome) ==
  /\ response' = browseRestaurantsResult(input, outcome)
  /\ UNCHANGED <<store, calls>>

\* --------------------------------------------------------------- inputs
Dish(restaurantId, name, description, price, photo) ==
  [restaurantId |-> restaurantId, name |-> name, description |-> description,
   price |-> price, photo |-> photo]

Change(id, name, description, price, photo) ==
  [id |-> id, name |-> name, description |-> description, price |-> price,
   photo |-> photo]

\* The restaurants of the mutation workflows all carry one text.
OneRestaurantInput == { [name |-> TextA, description |-> Missing] }
\* A restaurant named "a", one whose text holds "a" once and "b" three times,
\* and one whose name holds no word at all.
CreateRestaurantInputs ==
  { [name |-> TextA, description |-> Missing],
    [name |-> TextAb, description |-> TextBb],
    [name |-> Blank, description |-> Missing] }

\* Complete dishes for every restaurant id, and for an id that exists the
\* inputs with restaurantId, name or price missing (a price of 0 included).
AddDishInputs ==
  { Dish(r, TextA, Missing, <<5>>, Missing) : r \in RestaurantIds \ {0} }
  \cup { Dish(r, TextAb, TextBb, <<5>>, Missing) : r \in RestaurantIds \ {0} }
  \cup { Dish(0, TextA, Missing, <<5>>, Missing),
         Dish(1, Missing, TextBb, <<5>>, Missing),
         Dish(1, TextA, Missing, <<>>, Missing),
         Dish(1, TextA, TextBb, <<0>>, Missing) }

\* A new name, a new description, a new price and photo, and no change.
UpdateDishInputs ==
  UNION { { Change(id, TextAb, Missing, <<>>, Missing),
            Change(id, Missing, TextBb, <<>>, Missing),
            Change(id, Missing, Missing, <<0>>, <<"p">>),
            Change(id, Missing, Missing, <<>>, Missing) } : id \in DishIds }

Queries == {Missing, Blank, <<"B">>, <<"a", " ", "b">>}
Limits == {<<>>, <<1>>, <<2>>}
Offsets == {<<>>, <<1>>, <<-1>>}
BrowseRestaurantsInputs == [limit : Limits, query : Queries, offset : Offsets]

\* The least inputs of a race: a dish to add and a new name for a dish.
RaceAddDishInputs ==
  { Dish(r, TextA, Missing, <<5>>, Missing) : r \in RestaurantIds \ {0} }
RaceUpdateDishInputs == { Change(id, TextAb, Missing, <<>>, Missing) : id \in DishIds }

\* Updates of the price (to 0), of the photo, and of both.
PriceUpdateDishInputs ==
  UNION { { Change(id, Missing, Missing, <<0>>, Missing),
            Change(id, Missing, Missing, <<>>, <<"p">>),
            Change(id, Missing, Missing, <<0>>, <<"p">>) } : id \in DishIds }

\* ------------------------------------------------------- specification
\* The steps of the dish mutations served by slot p, each step's storage
\* call ending with `outcome`.
Add(p, outcome, adds) ==
  \/ \E owner \in Users, input \in adds : addDish(p, owner, input, outcome)
  \/ addDishSaveDish(p, outcome)
  \/ addDishSaveRestaurant(p, outcome)

Delete(p, outcome) ==
  \/ \E owner \in Users, id \in DishIds : deleteDish(p, owner, id, outcome)
  \/ deleteDishFindRestaurant(p, outcome)
  \/ deleteDishSaveRestaurant(p, outcome)
  \/ deleteDishDelete(p, outcome)

Update(p, outcome, changes) ==
  \/ \E owner \in Users, input \in changes : updateDish(p, owner, input, outcome)
  \/ updateDishFindRestaurant(p, outcome)
  \/ updateDishSaveDish(p, outcome)

\* The steps of a dish lookup served by slot p.
Get(p, outcome) ==
  \/ \E owner \in Users, id \in DishIds : getDishById(p, owner, id, outcome)
  \/ getDishByIdFindRestaurant(p, outcome)

\* The requests that make a single storage call; `alone`: only while no
\* other request is in flight.
NoCallInFlight == \A p \in Slots : calls[p] = Idle
Quiet(alone) == alone => NoCallInFlight

Create(outcome, alone, owners, inputs) ==
  \E owner \in owners, input \in inputs :
    Quiet(alone) /\ createRestaurant(owner, input, outcome)

View(outcome, alone) ==
  \/ \E owner \in Users : Quiet(alone) /\ myRestaurants(owner, outcome)
  \/ \E owner \in Users, id \in RestaurantIds :
       Quiet(alone) /\ myRestaurant(owner, id, outcome)
  \/ \E input \in BrowseRestaurantsInputs :
       Quiet(alone) /\ browseRestaurants(input, outcome)

\* The catalog mutations, served one at a time (by slot 1); any storage call
\* may fault.
Next ==
  \E outcome \in StorageOutcomes :
    \/ Create(outcome, TRUE, Owners, OneRestaurantInput)
    \/ Add(1, outcome, AddDishInputs)
    \/ Delete(1, outcome)
    \/ Update(1, outcome, UpdateDishInputs)

Spec == Init /\ [][Next]_vars

\* The catalog mutations, served one at a time; no storage call faults.
NextSeq ==
  \/ Create("done", TRUE, Owners, OneRestaurantInput)
  \/ Add(1, "done", AddDishInputs)
  \/ Delete(1, "done")
  \/ Update(1, "done", UpdateDishInputs)

SeqSpec == Init /\ [][NextSeq]_vars

\* Dish mutations served concurrently, one per slot, their steps interleaved
\* at the awaits; no storage call faults.
NextRace ==
  \/ Create("done", FALSE, Owners, OneRestaurantInput)
  \/ \E p \in Slots :
       \/ Add(p, "done", RaceAddDishInputs)
       \/ Delete(p, "done")
       \/ Update(p, "done", RaceUpdateDishInputs)

RaceSpec == Init /\ [][NextRace]_vars

\* The read operations over a catalog of restaurants and dishes, served one
\* at a time; any storage call may fault.
NextRead ==
  \E outcome \in StorageOutcomes :
    \/ Create(outcome, TRUE, Users, CreateRestaurantInputs)
    \/ Add(1, outcome, RaceAddDishInputs)
    \/ Get(1, outcome)
    \/ View(outcome, TRUE)

ReadSpec == Init /\ [][NextRead]_vars

\* The search over a catalog built without faults: restaurants of the three
\* texts, dishes added to them, and browseRestaurants with every input.
Browse(outcome) ==
  \E input \in BrowseRestaurantsInputs :
    NoCallInFlight /\ browseRestaurants(input, outcome)

NextBrowse ==
  \/ Create("done", TRUE, Owners, CreateRestaurantInputs)
  \/ Add(1, "done", RaceAddDishInputs)
  \/ \E outcome \in StorageOutcomes : Browse(outcome)

BrowseSpec == Init /\ [][NextBrowse]_vars

\* Updates of price and photo of dishes added without faults, served one at
\* a time.
NextPrice ==
  \/ Create("done", TRUE, Owners, OneRestaurantInput)
  \/ Add(1, "done", RaceAddDishInputs)
  \/ Update(1, "done", PriceUpdateDishInputs)

PriceSpec == Init /\ [][NextPrice]_vars

\* Restaurants of the three texts, and dishes added and deleted, served one
\* at a time without faults; no dish is ever updated.
NextCatalog ==
  \/ Create("done", TRUE, Owners, CreateRestaurantInputs)
  \/ Add(1, "done", AddDishInputs)
  \/ Delete(1, "done")

CatalogSpec == Init /\ [][NextCatalog]_vars

\* ---------------------------------------------------------- properties
\* Add-extraction of a name and a description into m.
WithText(m, name, description) ==
  extractAndCountKeywords(extractAndCountKeywords(m, name, FALSE), description, FALSE)

RECURSIVE WithDishes(_, _, _)
\* Add-extraction into m of the text of every dish d..lastDishId that exists
\* for restaurant r.
WithDishes(m, r, d) ==
  IF d > lastDishId THEN m
  ELSE WithDishes(IF d \in DOMAIN dishes /\ dishes[d].restaurantId = r
                  THEN WithText(m, dishes[d].name, dishes[d].description)
                  ELSE m,
                  r, d + 1)

\* The fold of add-extraction over the restaurant's text and its dishes' text.
CatalogIndex(r) ==
  WithDishes(WithText(EmptyKeywords, restaurants[r].name, restaurants[r].description),
             r, 1)

\* C1: once every request of a sequence of successful createRestaurant,
\* addDish, updateDish and deleteDish calls, served one at a time, has
\* returned, each restaurant's persisted keywords equal the fold of
\* add-extraction over its own text and the text of its existing dishes.
C1_IndexConsistent ==
  NoCallInFlight =>
    \A r \in DOMAIN restaurants : restaurants[r].keywords = CatalogIndex(r)

\* The step on which slot p's updateDish returns success.
UpdateDishReturns(p) ==
  /\ calls[p].pc = "updateDish:dishes.save"
  /\ calls'[p] = Idle
  /\ response' = Success("updateDish")

\* C2: when an updateDish by the owner that supplies a new name (or a new
\* description) returns success, the parent restaurant's persisted keywords
\* are the previously persisted ones with the dish's old name (old
\* description, if any) subtracted and the new one added, and the dish is
\* persisted with its new text.
C2_UpdateDishPersistsKeywords ==
  [][\A p \in Slots :
       LET input == calls[p].input
           old == dishes[input.id]
           r == old.restaurantId
           before == restaurants[r].keywords
           renamed ==
             IF input.name # Missing
             THEN extractAndCountKeywords(
                    extractAndCountKeywords(before, old.name, TRUE),
                    input.name, FALSE)
             ELSE before
           described ==
             IF input.description # Missing
             THEN extractAndCountKeywords(
                    extractAndCountKeywords(renamed, old.description, TRUE),
                    input.description, FALSE)
             ELSE renamed
       IN (UpdateDishReturns(p)
           /\ (input.name # Missing \/ input.description # Missing))
          => /\ restaurants'[r].keywords = described
             /\ dishes'[input.id].name =
                  IF input.name # Missing THEN input.name ELSE old.name
             /\ dishes'[input.id].description =
                  IF input.description # Missing THEN input.description
                  ELSE old.description]_vars

\* A state the sequence create, addDish, updateDish leads to: every request
\* has returned, an updateDish returned success last, and a dish exists.
C1_AfterUpdateDish ==
  /\ NoCallInFlight
  /\ response = Success("updateDish")
  /\ DOMAIN dishes # {}

\* The step on which slot p's addDish returns success.
AddDishReturns(p) ==
  /\ calls[p].pc = "addDish:restaurants.save"
  /\ calls'[p] = Idle
  /\ response' = Success("addDish")

\* C3: an addDish that returns success has written back the keyword map it
\* computed from its own earlier read, whatever was persisted in between (no
\* compare-and-swap, no lock); so of two addDish calls that interleave as
\* read-read-write-write both return success and the persisted map holds the
\* tokens of one dish only while both dishes exist (C3_LostUpdate).
C3_WriteBackOfStaleRead ==
  [][\A p \in Slots :
       AddDishReturns(p) =>
         LET r == calls[p].restaurant.id
         IN /\ restaurants'[r].keywords = calls[p].restaurant.keywords
            /\ dishes' = dishes]_vars

\* Two dishes "a" exist for restaurant 1 "a", every request has returned, the
\* last one an addDish with success, and the persisted map counts one dish.
C3_LostUpdate ==
  /\ NoCallInFlight
  /\ response = Success("addDish")
  /\ DOMAIN dishes = {1, 2}
  /\ \A d \in {1, 2} : dishes[d].name = TextA /\ dishes[d].description = Missing
                       /\ dishes[d].restaurantId = 1
  /\ restaurants[1].name = TextA /\ restaurants[1].description = Missing
  /\ restaurants[1].keywords = (<<"a">> :> 2)
  /\ CatalogIndex(1) = (<<"a">> :> 3)

Rejected(op) ==
  /\ response' = unauthorizedError(op, "")
  /\ UNCHANGED store
  /\ NoCallInFlight'

\* C4: an addDish, updateDish or deleteDish whose caller is not the owner of
\* the (parent) restaurant returns an AuthorizationError, and no step of the
\* request changes a restaurant row or the dish table.
C4_NonOwnerRejected ==
  [][/\ \A owner \in Users, input \in AddDishInputs :
          ( /\ addDish(1, owner, input, "done")
            /\ input.restaurantId \in DOMAIN restaurants
            /\ input.name # Missing /\ input.price \notin {<<>>, <<0>>}
            /\ owner # restaurants[input.restaurantId].ownerId )
          => Rejected("addDish")
     /\ ( /\ deleteDishFindRestaurant(1, "done")
          /\ calls[1].owner # restaurants[calls[1].dish.restaurantId].ownerId )
        => Rejected("deleteDish")
     /\ ( /\ updateDishFindRestaurant(1, "done")
          /\ calls[1].owner # restaurants[calls[1].dish.restaurantId].ownerId )
        => Rejected("updateDish")
     /\ ( /\ calls[1] = Idle
          /\ calls'[1].pc \in {"deleteDish:restaurants.findOne",
                               "updateDish:restaurants.findOne"} )
        => UNCHANGED store]_vars

C4_UpdateDishRejected ==
  /\ response = unauthorizedError("updateDish", "")
  /\ DOMAIN dishes # {}
  /\ NoCallInFlight

Texts == {Missing, Blank, TextA, TextAb, TextBb}
Tokens == {<<"a">>, <<"b">>}

\* How often token k occurs in text t.
TokensOf == [t \in Texts |-> Tokenize(t)]
Occurrences(t, k) ==
  Cardinality({i \in 1..Len(TokensOf[t]) : TokensOf[t][i] = k})

\* C5: every key of a persisted keywords map has a count >= 1; subtracting a
\* text lowers the count of each of its tokens by its occurrences, removes
\* the key when that count would be 0 or less, and leaves a token the map
\* does not hold out of the map.
C5_CountsAtLeastOne ==
  \A r \in DOMAIN restaurants :
    LET m == restaurants[r].keywords
    IN /\ \A k \in DOMAIN m : m[k] >= 1
       /\ \A t \in Texts :
            LET less == extractAndCountKeywords(m, t, TRUE)
            IN /\ \A k \in DOMAIN less : less[k] >= 1
               /\ \A k \in Tokens \cup DOMAIN m :
                    IF k \in DOMAIN m /\ m[k] - Occurrences(t, k) >= 1
                    THEN k \in DOMAIN less /\ less[k] = m[k] - Occurrences(t, k)
                    ELSE k \notin DOMAIN less

\* The count of "a" of restaurant "a" dropped to 0 (two dishes "a" were added
\* with one update lost, then both deleted) and the key is gone.
C5_KeyRemovedAtZero ==
  /\ NoCallInFlight
  /\ response = Success("deleteDish")
  /\ DOMAIN restaurants = {1}
  /\ restaurants[1].name = TextA
  /\ restaurants[1].keywords = EmptyKeywords

\* C6: adding a text to a persisted keywords map and subtracting it again
\* yields the map; an addDish that returns success leaves a map from which a
\* deleteDish of that dish computes the map persisted before the addDish; and
\* deleteDish persists the map it computes from the persisted one and the
\* dish's row.
C6_AddThenSubtractRestores ==
  /\ [](\A r \in DOMAIN restaurants, t \in Texts :
          LET m == restaurants[r].keywords
          IN extractAndCountKeywords(extractAndCountKeywords(m, t, FALSE), t, TRUE)
             = m)
  /\ [][AddDishReturns(1) =>
          LET r == calls[1].restaurant.id
          IN /\ lastDishId \in DOMAIN dishes'
             /\ dishes'[lastDishId] = calls[1].dish
             /\ deleteDishKeywords(restaurants'[r].keywords, dishes'[lastDishId])
                = restaurants[r].keywords]_vars
  /\ [][(calls[1].pc = "deleteDish:restaurants.save"
         /\ calls'[1].pc = "deleteDish:dishes.delete") =>
          LET r == calls[1].restaurant.id
          IN restaurants'[r].keywords =
               deleteDishKeywords(restaurants[r].keywords, dishes[calls[1].id])]_vars

\* The one dish ever added ("A b", "b b") has been deleted again and
\* restaurant "a" holds the keywords it was created with.
C6_AddedThenDeleted ==
  /\ NoCallInFlight
  /\ response = Success("deleteDish")
  /\ lastDishId = 1 /\ DOMAIN dishes = {}
  /\ restaurants[1].name = TextA
  /\ restaurants[1].keywords = (<<"a">> :> 1)

\* C7: no operation raises: a storage fault during browseRestaurants gives
\* its caller a failure result with an InternalError.
C7_NoOperationRaises ==
  /\ response.kind # "raised"
  /\ response.op = "browseRestaurants" =>
       (response.ok \/ response = internalServerError("browseRestaurants"))

\* A browseRestaurants whose storage call faulted was the last request.
C7_BrowseFaulted ==
  /\ response.op = "browseRestaurants"
  /\ ~response.ok

\* C8: when addDish's restaurant save faults after its dish save, the call
\* returns an InternalError, the dish stays persisted and the persisted
\* keywords stay without its tokens; when deleteDish's dish delete faults
\* after its restaurant save, the call returns an InternalError, the dish
\* still exists and the persisted keywords stay with its tokens subtracted.
C8_NoRollback ==
  [][/\ addDishSaveRestaurant(1, "fault") =>
          LET r == calls[1].restaurant.id
          IN /\ response' = internalServerError("addDish")
             /\ NoCallInFlight'
             /\ lastDishId \in DOMAIN dishes'
             /\ dishes'[lastDishId] = calls[1].dish
             /\ restaurants'[r].keywords = restaurants[r].keywords
             /\ WithText(restaurants'[r].keywords, calls[1].dish.name,
                         calls[1].dish.description)
                = calls[1].restaurant.keywords
             /\ restaurants'[r].keywords # calls[1].restaurant.keywords
     /\ deleteDishDelete(1, "fault") =>
          LET r == calls[1].restaurant.id
          IN /\ response' = internalServerError("deleteDish")
             /\ NoCallInFlight'
             /\ calls[1].id \in DOMAIN dishes'
             /\ dishes'[calls[1].id] = calls[1].dish
             /\ restaurants'[r].keywords = calls[1].restaurant.keywords]_vars

\* addDish returned an InternalError and left a dish whose tokens the
\* persisted keywords of its restaurant lack.
C8_DishWithoutKeywords ==
  /\ NoCallInFlight
  /\ response = internalServerError("addDish")
  /\ DOMAIN dishes = {1}
  /\ restaurants[1].keywords = createRestaurantKeywords(restaurants[1])
  /\ restaurants[1].keywords # CatalogIndex(1)

\* C9: a dish row is removed only by the last step of a deleteDish, after the
\* step that persisted the restaurant's keywords with the name and
\* description of that row subtracted; the row is still there when the
\* keywords are persisted, and they are as persisted when the row goes.
C9_SubtractedBeforeRemoved ==
  [][/\ \A d \in DOMAIN dishes :
          d \notin DOMAIN dishes' =>
            /\ calls[1].pc = "deleteDish:dishes.delete"
            /\ calls[1].id = d
            /\ calls[1].dish = dishes[d]
            /\ restaurants[dishes[d].restaurantId].keywords
               = calls[1].restaurant.keywords
            /\ restaurants' = restaurants
            /\ response' = Success("deleteDish")
     /\ (calls[1].pc = "deleteDish:restaurants.save" /\ calls'[1] # calls[1]) =>
          LET d == calls[1].id
              r == dishes[d].restaurantId
          IN /\ calls'[1].pc = "deleteDish:dishes.delete"
             /\ dishes' = dishes
             /\ restaurants'[r].keywords =
                  extractAndCountKeywords(
                    extractAndCountKeywords(restaurants[r].keywords,
                                            dishes[d].name, TRUE),
                    dishes[d].description, TRUE)
             /\ calls'[1].restaurant.keywords = restaurants'[r].keywords]_vars

\* A deleteDish has persisted the keywords without the dish's tokens and its
\* delete of the row is pending: the row "A b", "b b" is still there.
C9_SavedNotYetDeleted ==
  /\ calls[1].pc = "deleteDish:dishes.delete"
  /\ calls[1].id \in DOMAIN dishes
  /\ dishes[calls[1].id].name = TextAb
  /\ dishes[calls[1].id].description = TextBb
  /\ restaurants[1].keywords = createRestaurantKeywords(restaurants[1])

\* C10: an addDish whose restaurantId, name or price is missing returns a
\* ValidationError and changes nothing, whether or not the restaurant exists,
\* whoever the caller is, and whether or not the storage would fault.
C10_MissingFieldRejected ==
  [][\A input \in AddDishInputs :
       (input.restaurantId = 0 \/ input.name = Missing \/ input.price = <<>>) =>
         \A owner \in Users, outcome \in StorageOutcomes :
           addDish(1, owner, input, outcome) =>
             /\ response' = badRequestError("addDish")
             /\ UNCHANGED <<store, calls>>]_vars

\* addDish returned a ValidationError while no restaurant exists at all.
C10_RejectedBeforeLookup ==
  /\ response = badRequestError("addDish")
  /\ restaurants = <<>>
  /\ dishes = <<>>

\* The distinct tokens of a query, and the restaurants a response lists.
TokensOfQuery ==
  [query \in Queries |->
     LET tokens == Tokenize(LowerCase(query))
     IN {tokens[i] : i \in 1..Len(tokens)}]
QueryTokens(query) == TokensOfQuery[query]

Listed(r) == {r.restaurants[k] : k \in 1..Len(r.restaurants)}

\* The inputs whose page holds the whole filtered set: the default limit
\* exceeds the number of restaurants, and nothing is skipped.
Unpaged(input) == input.limit = <<>> /\ input.offset \in {<<>>, <<-1>>}

\* A step that returns the result of a browseRestaurants.
Browsed ==
  /\ response' # response
  /\ response'.op = "browseRestaurants"
  /\ response'.kind = "result"

\* C11: for a query with at least one token, browseRestaurants lists only
\* restaurants whose persisted keywords have at least one of the query's
\* tokens as a key, and, when the page holds the whole filtered set, every
\* such restaurant, whatever count the key carries.
C11_MatchesAnyToken ==
  [][(Browsed /\ QueryTokens(response'.request.query) # {}) =>
       LET input == response'.request
           has == {i \in 1..Len(restaurants) :
                     QueryTokens(input.query) \cap DOMAIN restaurants[i].keywords # {}}
       IN /\ response'.ok
          /\ Listed(response') \subseteq has
          /\ Unpaged(input) => Listed(response') = has]_vars

\* The query "a b" listed both restaurants: the first has the key "a" alone, with
\* count 1, the second has "b" with count 3, and a third kind of restaurant,
\* without any key, is not what either is.
C11_BothListed ==
  /\ response = Answer([limit |-> <<>>, query |-> <<"a", " ", "b">>, offset |-> <<>>],
                       Found("browseRestaurants", <<1, 2>>))
  /\ DOMAIN restaurants[1].keywords = {TextA}
  /\ restaurants[1].keywords[TextA] = 1
  /\ <<"b">> \in DOMAIN restaurants[2].keywords
  /\ restaurants[2].keywords[<<"b">>] = 3

\* C12: for a query that is absent, empty or without any token,
\* browseRestaurants filters nothing: it lists only existing restaurants and,
\* when the page holds the whole set, every one of them, those with an empty
\* keywords map included.
C12_NoTokenMatchesAll ==
  [][(Browsed /\ QueryTokens(response'.request.query) = {}) =>
       /\ response'.ok
       /\ Listed(response') \subseteq 1..Len(restaurants)
       /\ Unpaged(response'.request) =>
            response'.restaurants = [i \in 1..Len(restaurants) |-> i]]_vars

\* The query " ", which holds no token, listed both restaurants, of which
\* the first has no keyword at all.
C12_BlankQueryListsAll ==
  /\ response = Answer([limit |-> <<>>, query |-> Blank, offset |-> <<>>],
                       Found("browseRestaurants", <<1, 2>>))
  /\ restaurants[1].keywords = EmptyKeywords
  /\ restaurants[2].keywords # EmptyKeywords

\* The restaurants, in id order, that the query of `input` does not filter
\* out, and the limit and offset that `input` asks for.
Filtered(input) ==
  SelectIds({i \in 1..Len(restaurants) :
               \/ QueryTokens(input.query) = {}
               \/ QueryTokens(input.query) \cap DOMAIN restaurants[i].keywords # {}},
            1, Len(restaurants))

LimitOf(input) == IF input.limit = <<>> THEN 10 ELSE input.limit[1]
OffsetOf(input) == IF input.offset = <<>> THEN 0 ELSE input.offset[1]

\* C13: browseRestaurants lists at most `limit` restaurants: those that follow
\* the first offset * limit of the filtered set when offset >= 0, the first
\* ones of the set when offset < 0; the limit is 10 and the offset 0 when
\* the input leaves them out.
C13_Pagination ==
  [][Browsed =>
       LET input == response'.request
           limit == LimitOf(input)
           skip == IF OffsetOf(input) >= 0 THEN OffsetOf(input) * limit ELSE 0
           rest == Len(Filtered(input)) - skip
           page == response'.restaurants
       IN /\ Len(page) <= limit
          /\ Len(page) = IF rest <= 0 THEN 0 ELSE IF rest < limit THEN rest ELSE limit
          /\ \A k \in 1..Len(page) : page[k] = Filtered(input)[skip + k]]_vars

\* With limit 1 and offset 1, the second of two restaurants that the query
\* "a b" matches is the one listed.
C13_SecondPage ==
  /\ response = Answer([limit |-> <<1>>, query |-> <<"a", " ", "b">>, offset |-> <<1>>],
                       Found("browseRestaurants", <<2>>))
  /\ \A i \in {1, 2} : TextA \in DOMAIN restaurants[i].keywords

\* C14: myRestaurant answers a caller who asks for an existing restaurant of
\* another owner with the very result it gives for an id that no restaurant
\* has: the same NotFoundError with the same message.
C14_NotOwnedLooksAbsent ==
  [][\A owner \in Users, id \in RestaurantIds \ {0} :
       ( /\ response'.op = "myRestaurant"
         /\ myRestaurant(owner, id, "done")
         /\ \/ id > Len(restaurants)
            \/ restaurants[id].ownerId # owner )
       => response' =
            Answer([owner |-> owner, id |-> id],
                   [op |-> "myRestaurant", kind |-> "result", ok |-> FALSE,
                    code |-> "NotFoundError",
                    message |-> "Restaurant not found or you don't have permission to view it.",
                    restaurants |-> <<>>, request |-> <<>>])]_vars

\* User 2 asked for restaurant 1, which exists and is user 1's, and got the
\* result that an absent restaurant gets.
C14_NotOwnedAnswered ==
  /\ Len(restaurants) >= 1
  /\ restaurants[1].ownerId = 1
  /\ response = Answer([owner |-> 2, id |-> 1], myRestaurantAbsent)

\* C15: a createRestaurant whose save succeeds stores one more restaurant,
\* owned by the caller, whose keywords hold exactly the tokens of its name and
\* description, each with the number of its occurrences in the two (an absent
\* description adds none); one whose save faults returns an InternalError and
\* stores nothing.
C15_SeededOrNothing ==
  [][\A owner \in Users, input \in CreateRestaurantInputs :
       /\ ( /\ response'.op = "createRestaurant"
            /\ createRestaurant(owner, input, "done") ) =>
            LET new == restaurants'[Len(restaurants')]
            IN /\ response' = Success("createRestaurant")
               /\ Len(restaurants') = Len(restaurants) + 1
               /\ SubSeq(restaurants', 1, Len(restaurants)) = restaurants
               /\ new.ownerId = owner
               /\ new.name = input.name
               /\ new.description = input.description
               /\ DOMAIN new.keywords =
                    {k \in Tokens : Occurrences(input.name, k)
                                    + Occurrences(input.description, k) > 0}
               /\ \A k \in DOMAIN new.keywords :
                    new.keywords[k] = Occurrences(input.name, k)
                                      + Occurrences(input.description, k)
               /\ dishes' = dishes
       /\ ( /\ response'.op = "createRestaurant"
            /\ createRestaurant(owner, input, "fault") ) =>
            /\ response' = internalServerError("createRestaurant")
            /\ restaurants' = restaurants
            /\ dishes' = dishes]_vars

\* User 2 created the second restaurant, "A b" with the description "b b":
\* its keywords are a: 1, b: 3.
C15_SecondRestaurantSeeded ==
  /\ response = Success("createRestaurant")
  /\ Len(restaurants) = 2
  /\ restaurants[2].ownerId = 2
  /\ restaurants[2].name = TextAb
  /\ restaurants[2].keywords = (<<"a">> :> 1) @@ (<<"b">> :> 3)

\* A step of a read operation: one that returns the result of
\* browseRestaurants, myRestaurants or myRestaurant, or any step of a
\* getDishById, from its lookup of the dish to its return.
ReadOperations == {"browseRestaurants", "myRestaurants", "myRestaurant", "getDishById"}
GetDishByIdSteps == {"getDishById:restaurants.findOne"}

ReadStep ==
  \/ response' # response /\ response'.op \in ReadOperations
  \/ \E p \in Slots :
       /\ calls'[p] # calls[p]
       /\ calls[p].pc \in GetDishByIdSteps \/ calls'[p].pc \in GetDishByIdSteps

\* C16: no step of browseRestaurants, myRestaurants, myRestaurant or
\* getDishById, whatever its input and whether or not its storage call
\* faults, changes a restaurant's persisted keywords, any other field of a
\* restaurant, or the persisted dishes.
C16_ReadsChangeNothing ==
  [][ReadStep => /\ restaurants' = restaurants
                 /\ dishes' = dishes
                 /\ lastDishId' = lastDishId]_vars

\* A search for "B" has listed the second of two restaurants, and dishes
\* exist.
C16_SearchedCatalog ==
  /\ response.op = "browseRestaurants"
  /\ response.ok
  /\ response.request.query = <<"B">>
  /\ response.restaurants = <<2>>
  /\ Len(restaurants) = 2
  /\ DOMAIN dishes # {}

\* C17: an updateDish by the owner that supplies neither name nor description
\* computes the keywords it read, unchanged, for the parent restaurant, and
\* its save leaves every restaurant and every other dish as they were and
\* changes of its dish only the price, to the supplied number (0 included),
\* and the photo, to the supplied one.
C17_PriceAndPhotoOnly ==
  [][/\ ( /\ calls[1].pc = "updateDish:restaurants.findOne"
          /\ calls'[1].pc = "updateDish:dishes.save"
          /\ calls[1].input.name = Missing
          /\ calls[1].input.description = Missing ) =>
          /\ calls'[1].restaurant.keywords
             = restaurants[calls[1].dish.restaurantId].keywords
          /\ UNCHANGED store
     /\ ( /\ calls[1].pc = "updateDish:dishes.save"
          /\ calls'[1] = Idle
          /\ response'.ok
          /\ calls[1].input.name = Missing
          /\ calls[1].input.description = Missing ) =>
          LET input == calls[1].input
              old == dishes[input.id]
              new == dishes'[input.id]
          IN /\ response' = Success("updateDish")
             /\ restaurants' = restaurants
             /\ DOMAIN dishes' = DOMAIN dishes
             /\ \A d \in DOMAIN dishes \ {input.id} : dishes'[d] = dishes[d]
             /\ new.name = old.name
             /\ new.description = old.description
             /\ new.restaurantId = old.restaurantId
             /\ new.price = IF input.price = <<>> THEN old.price ELSE input.price
             /\ new.photo = IF input.photo = Missing THEN old.photo ELSE input.photo]_vars

\* An updateDish has set the price of dish 1 to 0 and its photo to "p"; the
\* dish keeps its name and its restaurant the keywords of the two "a".
C17_PriceSetToZero ==
  /\ response = Success("updateDish")
  /\ 1 \in DOMAIN dishes
  /\ dishes[1].price = <<0>>
  /\ dishes[1].photo = <<"p">>
  /\ dishes[1].name = TextA
  /\ restaurants[dishes[1].restaurantId].keywords = (TextA :> 2)

RECURSIVE DishOccurrences(_, _, _)
\* How often token k occurs in the names and descriptions of the dishes
\* d..lastDishId that exist for restaurant r.
DishOccurrences(r, k, d) ==
  IF d > lastDishId THEN 0
  ELSE (IF d \in DOMAIN dishes /\ dishes[d].restaurantId = r
        THEN Occurrences(dishes[d].name, k) + Occurrences(dishes[d].description, k)
        ELSE 0)
       + DishOccurrences(r, k, d + 1)

\* C18: where no dish is ever updated, once every call of a sequence of
\* createRestaurant, addDish and deleteDish calls has returned, each
\* restaurant's persisted keywords are the fold of add-extraction over its
\* text and the text of its existing dishes: they hold each token exactly as
\* often as it occurs there, and no token that does not occur.
C18_IndexConsistentWithoutUpdates ==
  NoCallInFlight =>
    \A r \in DOMAIN restaurants :
      /\ restaurants[r].keywords = CatalogIndex(r)
      /\ DOMAIN restaurants[r].keywords \subseteq Tokens
      /\ \A k \in Tokens :
           LET n == Occurrences(restaurants[r].name, k)
                    + Occurrences(restaurants[r].description, k)
                    + DishOccurrences(r, k, 1)
           IN IF n = 0 THEN k \notin DOMAIN restaurants[r].keywords
              ELSE /\ k \in DOMAIN restaurants[r].keywords
                   /\ restaurants[r].keywords[k] = n

\* One of the two dishes added to the restaurant "a" has been deleted, the
\* other, "A b" with the description "b b", still exists: the keywords are
\* a: 2, b: 3.
C18_OneDishLeft ==
  /\ response = Success("deleteDish")
  /\ restaurants[1].name = TextA
  /\ DOMAIN dishes = {2}
  /\ dishes[2].restaurantId = 1
  /\ dishes[2].name = TextAb
  /\ restaurants[1].keywords = (<<"a">> :> 2) @@ (<<"b">> :> 3)

\* C19: an addDish by the owner of an existing restaurant that supplies the
\* restaurantId, a non-empty name and a numeric price, 0 included, is not
\* rejected: no result is returned at its validation, and it goes on to
\* save the dish with that price.
C19_NumericPriceAccepted ==
  [][\A owner \in Users, input \in AddDishInputs :
       ( /\ input.restaurantId \in 1..Len(restaurants)
         /\ restaurants[input.restaurantId].ownerId = owner
         /\ input.name # Missing
         /\ input.price # <<>>
         /\ addDish(1, owner, input, "done") )
       => /\ calls'[1].pc = "addDish:dishes.save"
          /\ calls'[1].dish.price = input.price
          /\ response' = response]_vars

============================================================================
